---------------------------- MODULE Spec2Model ----------------------------
(***************************************************************************)
(* Model of "Comparsion of Normal Sampling Algorithms.ipynb": four         *)
(* standard-normal generators (Box-Mueller, Acceptance-Rejection,          *)
(* Bray-Marsaglia polar, Beasley-Springer-Moro inverse CDF) run one after  *)
(* another inside a timing harness, followed by a sort of the measured     *)
(* times.                                                                  *)
(*                                                                         *)
(* Real numbers are fixed-point integers: the real x is the integer        *)
(* round(x * Scale).  Products and quotients round to nearest with ties    *)
(* away from zero, so that, like IEEE-754 arithmetic, every operation      *)
(* commutes with negation.                                                 *)
(***************************************************************************)
EXTENDS Integers, Sequences, FiniteSets, TLC

\* Fixed-point resolution: the real 1.0.
Scale == 10 ^ 4

\* The literal 0.5 (lines 194, 336) and the literal 0.42 (line 338).
Half == Scale \div 2
Central == (42 * Scale) \div 100

-----------------------------------------------------------------------------
(* Bounds of the model *)

\* Largest sample count N explored (the notebook fixes N = 1000000).
MaxN == 3
\* Largest advance of the wall clock between two consecutive reads.
MaxTick == 1
\* Largest number of rejected attempts explored in one rejection-loop run.
MaxRetries == 1

-----------------------------------------------------------------------------
(* Fixed-point arithmetic *)

Abs(x) == IF x < 0 THEN -x ELSE x

\* np.sign / the sign of a float.
Sign(x) == IF x > 0 THEN 1 ELSE IF x < 0 THEN -1 ELSE 0

\* Integer quotient p / q (q > 0) rounded to nearest, ties away from zero.
RoundDiv(p, q) ==
    IF p >= 0 THEN (2 * p + q) \div (2 * q)
              ELSE -((2 * (-p) + q) \div (2 * q))

\* a * b
FMul(a, b) == RoundDiv(a * b, Scale)

\* a / b, b # 0
FDiv(a, b) ==
    IF b > 0 THEN RoundDiv(a * Scale, b) ELSE RoundDiv(-(a * Scale), -b)

\* a ** 2
FSq(a) == FMul(a, a)

\* Largest r in lo..hi with r * r <= v (requires lo * lo <= v).
RECURSIVE ISqrtIn(_, _, _)
ISqrtIn(v, lo, hi) ==
    IF lo >= hi THEN lo
    ELSE LET mid == (lo + hi + 1) \div 2
         IN  IF mid * mid <= v THEN ISqrtIn(v, mid, hi)
                               ELSE ISqrtIn(v, lo, mid - 1)

\* math.sqrt(x) for x >= 0.
Sqrt(x) ==
    LET v == x * Scale
        f == ISqrtIn(v, 0, 46340)
    IN  IF v - f * f > f THEN f + 1 ELSE f

\* sum_{k < terms} z^(2k+1) / (2k+1), the series of atanh(z).
RECURSIVE AtanhSeries(_, _, _, _)
AtanhSeries(pow, z2, k, terms) ==
    IF k >= terms THEN 0
    ELSE RoundDiv(pow, 2 * k + 1) + AtanhSeries(FMul(pow, z2), z2, k + 1, terms)

\* ln(m) for m near 1: 2 * atanh((m - 1) / (m + 1)).
LnMantissa(m) ==
    LET z == FDiv(m - Scale, m + Scale)
    IN  2 * AtanhSeries(z, FSq(z), 0, 5)

\* math.log(x) for x > 0: halve or double x into [0.75, 1.5), adding or
\* removing ln(2) = 0.6931 each time.
RECURSIVE Ln(_)
Ln(x) ==
    IF 2 * x >= 3 * Scale THEN 6931 + Ln(RoundDiv(x, 2))
    ELSE IF 4 * x < 3 * Scale THEN Ln(2 * x) - 6931
    ELSE LnMantissa(x)

\* sum_{k >= n} (-f)^k / k! given term = (-f)^n / n!, cut after 12 terms.
RECURSIVE ExpSeries(_, _, _)
ExpSeries(term, f, n) ==
    IF n > 12 \/ term = 0 THEN 0
    ELSE term + ExpSeries(RoundDiv(-(term * f), Scale * (n + 1)), f, n + 1)

\* math.exp(x) for x <= 0: exp(-1) = 0.3679 per whole unit, series for the rest.
RECURSIVE Exp(_)
Exp(x) ==
    IF x <= -Scale THEN FMul(3679, Exp(x + Scale))
    ELSE ExpSeries(Scale, -x, 0)

\* cos and sin on [0, pi/2] by their Taylor series.
RECURSIVE TrigSeries(_, _, _)
TrigSeries(term, x2, n) ==
    IF n > 12 \/ term = 0 THEN 0
    ELSE term + TrigSeries(RoundDiv(-(term * x2), Scale * (n + 1) * (n + 2)), x2, n + 2)

CosQ(x) == TrigSeries(Scale, FSq(x), 0)
SinQ(x) == TrigSeries(x, FSq(x), 1)

\* math.cos / math.sin for an angle in [0, 2 pi]; pi = 3.1416.
Cos(t) ==
    IF t <= 15708 THEN CosQ(t)
    ELSE IF t <= 31416 THEN -CosQ(31416 - t)
    ELSE IF t <= 47124 THEN -CosQ(t - 31416)
    ELSE CosQ(62832 - t)

Sin(t) ==
    IF t <= 15708 THEN SinQ(t)
    ELSE IF t <= 31416 THEN SinQ(31416 - t)
    ELSE IF t <= 47124 THEN -SinQ(t - 31416)
    ELSE -SinQ(62832 - t)

-----------------------------------------------------------------------------
(* Infinite and undefined floats (numpy's log(0) = -inf, inf * 0 = nan) *)

Inf == 2 ^ 30
NaN == 2 ^ 30 + 1

\* c * t for a finite t and a c that is finite or +inf.
XMul(cc, t) ==
    IF cc = Inf THEN (IF t > 0 THEN Inf ELSE IF t < 0 THEN -Inf ELSE NaN)
    ELSE FMul(cc, t)

-----------------------------------------------------------------------------
(* The uniform source and the algorithm names *)

\* Values np.random.uniform(0, 1) returns, as the inverse CDF explores them:
\* a grid of [0, 1) holding 0, the median 0.5 and the branch boundaries 0.08
\* and 0.92, and closed under u -> 1 - u away from 0.
UnitDraws == {(k * Scale) \div 100 : k \in {0, 4, 8, 25, 50, 75, 92, 96}}

\* Values np.random.uniform(0, 1, 1) returns, as Box-Mueller and
\* Acceptance-Rejection explore them: a coarser grid of [0, 1), with values
\* on both sides of 0.5 and of every acceptance threshold.
CoarseDraws == {(k * Scale) \div 100 : k \in {0, 4, 50, 96}}

\* Values np.random.uniform(-1, 1) returns: a grid of [-1, 1) giving sums of
\* squares equal to 0, below 1, equal to 1 and above 1.
SignedDraws == {(k * Scale) \div 10 : k \in {-10, 0, 5, 6, 8}}

BM == "Box-Mueller"
AR == "Acceptance-Rejection"
PM == "Bray-Marsaglia"
BSM == "Beasley-Springer-Moro"
Algorithms == {BM, AR, PM, BSM}

-----------------------------------------------------------------------------
(* Loop bounds *)

\* int(n / 2): true division, truncated toward zero.
IntHalf(n) == IF n >= 0 THEN n \div 2 ELSE -((-n) \div 2)

\* len(range(n))
RangeLen(n) == IF n > 0 THEN n ELSE 0

\* Mutant of BMCount: the pair count rounded up.
BMCountCeil(n) == RangeLen((n + 1) \div 2)
\* for i in range(int(N / 2)), Box-Mueller
BMCount(n) == RangeLen(IntHalf(n))

\* for i in range(N), Acceptance-Rejection
ARCount(n) == RangeLen(n)

\* Mutant of PMCount: the pair count rounded up.
PMCountCeil(n) == RangeLen((n + 1) \div 2)
\* for i in range(int(N / 2)), Bray-Marsaglia
PMCount(n) == RangeLen(IntHalf(n))

\* Mutant of BSMCount: the pair generators' bound copied over.
BSMCountHalf(n) == RangeLen(IntHalf(n))
\* for i in range(N), Beasley-Springer-Moro
BSMCount(n) == RangeLen(n)

-----------------------------------------------------------------------------
(* Box-Mueller *)

\* Mutant of BMRadius: the sign of the radicand lost.
BMRadiusUnsigned(u1) == IF u1 = 0 THEN Inf ELSE Sqrt(2 * Ln(u1))
\* c = sqrt(-2 * (np.log(U1))); np.log(0) is -inf, and sqrt(inf) is inf.
BMRadius(u1) == IF u1 = 0 THEN Inf ELSE Sqrt(-2 * Ln(u1))

\* Z1 = c * cos((2 * pi) * U2)
BMZ1(cc, u2) == XMul(cc, Cos(FMul(62832, u2)))

\* Z2 = c * sin((2 * pi) * U2)
BMZ2(cc, u2) == XMul(cc, Sin(FMul(62832, u2)))

\* One pass of the loop body on the draws (u1, u2).
BMBody(u1, u2) ==
    [c |-> BMRadius(u1),
     Z1 |-> BMZ1(BMRadius(u1), u2),
     Z2 |-> BMZ2(BMRadius(u1), u2)]

BMTable == [u1 \in CoarseDraws, u2 \in CoarseDraws |-> BMBody(u1, u2)]

-----------------------------------------------------------------------------
(* Acceptance-Rejection *)

\* X = -log(U1), for U1 > 0 (math.log raises at 0)
ARCandidate(u1) == -Ln(u1)

\* U2 <= exp(-0.5 * ((X - 1) ** 2))
ARAccepts(x, u2) == u2 <= Exp(FMul(-Half, FSq(x - Scale)))

\* Mutant of ARExits: the sign test moved out of the acceptance test.
ARExitsOnSign(x, u2, u3) == u3 <= Half
\* The attempt reaches "break": it sits inside "if U3 <= 0.5", itself inside
\* the acceptance test.
ARExits(x, u2, u3) == ARAccepts(x, u2) /\ u3 <= Half

\* X when the attempt ends: negated exactly when the break is reached.
ARResult(x, u2, u3) == IF ARAccepts(x, u2) /\ u3 <= Half THEN -x ELSE x

\* One pass of the body of "while True" on the draws (u1, u2, u3): how it
\* ends ("fault": math.log(0) raises ValueError before X is assigned) and X.
ARBody(u1, u2, u3) ==
    IF u1 <= 0 THEN [end |-> "fault", X |-> 0]
    ELSE LET x == ARCandidate(u1)
         IN  [end |-> IF ARExits(x, u2, u3) THEN "emit" ELSE "redraw",
              X |-> ARResult(x, u2, u3)]

\* Mutant of ARDraws: U3 drawn only by a pass that reaches "break".
ARDrawsLazy(end) == IF end = "redraw" THEN 2 ELSE 3
\* U1, U2, U3 = np.random.uniform(0, 1): the three draws open every pass,
\* before the acceptance test and whatever the end of the pass.
ARDraws(end) == 3

ARTable ==
    [u1 \in CoarseDraws, u2 \in CoarseDraws, u3 \in CoarseDraws |->
        ARBody(u1, u2, u3)]

-----------------------------------------------------------------------------
(* Bray-Marsaglia *)

\* S = (U1 ** 2) + (U2 ** 2)
PMSum(u1, u2) == FSq(u1) + FSq(u2)

\* if S <= 1
PMAccepts(s) == s <= Scale

\* -2 * log(S) / S, for S > 0
PMRadicand(s) == FDiv(-2 * Ln(s), s)

\* X = U1 * sqrt(-2 * log(S) / S) as PMCoord(U1, U2, S), and
\* Y = U2 * sqrt(-2 * log(S) / S) as PMCoord(U2, U1, S)
PMCoord(ua, ub, s) == FMul(ua, Sqrt(PMRadicand(s)))

\* Mutant of PMBody: "break" moved out of "if S <= 1", so that a rejected
\* pass leaves the loop too.
PMBodyBreakOutside(u1, u2) ==
    LET s == PMSum(u1, u2)
    IN  IF ~PMAccepts(s) THEN [S |-> s, end |-> "emit", X |-> 0, Y |-> 0]
        ELSE IF s <= 0 THEN [S |-> s, end |-> "fault", X |-> 0, Y |-> 0]
        ELSE [S |-> s, end |-> "emit",
              X |-> PMCoord(u1, u2, s), Y |-> PMCoord(u2, u1, s)]

\* One pass of the body of "while True" on the draws (u1, u2): S, how it ends
\* ("fault": math.log(0), or math.sqrt of a negative, raises ValueError before
\* X is assigned) and the pair (X, Y).
PMBody(u1, u2) ==
    LET s == PMSum(u1, u2)
    IN  IF ~PMAccepts(s) THEN [S |-> s, end |-> "redraw", X |-> 0, Y |-> 0]
        ELSE IF s <= 0 THEN [S |-> s, end |-> "fault", X |-> 0, Y |-> 0]
        ELSE IF PMRadicand(s) < 0 THEN [S |-> s, end |-> "fault", X |-> 0, Y |-> 0]
        ELSE [S |-> s, end |-> "emit",
              X |-> PMCoord(u1, u2, s), Y |-> PMCoord(u2, u1, s)]

\* U1, U2 = np.random.uniform(-1, 1): the two draws open every pass, before
\* S is tested and whatever the end of the pass.
PMDraws(end) == 2

PMTable == [u1 \in SignedDraws, u2 \in SignedDraws |-> PMBody(u1, u2)]

-----------------------------------------------------------------------------
(* Beasley-Springer-Moro *)

a0 == 25066
a1 == -186150
a2 == 413912
a3 == -254411
b0 == -84735
b1 == 230834
b2 == -210622
b3 == 31308
c0 == 3375
c1 == 9762
c2 == 1608
c3 == 276
c4 == 38
c5 == 4
c6 == 0
c7 == 0
c8 == 0

\* Y = U - 0.5
BSMOffset(u) == u - Half

\* Mutant of BSMIsCentral: the boundary |Y| = 0.42 taken into the centre.
BSMIsCentralInclusive(y) == Abs(y) <= Central
\* if abs(Y) < 0.42
BSMIsCentral(y) == Abs(y) < Central

\* 1 + r * (b0 + r * (b1 + r * (b2 + r * b3)))
BSMDenominator(rr) ==
    Scale + FMul(rr, b0 + FMul(rr, b1 + FMul(rr, b2 + FMul(rr, b3))))

\* Mutant of BSMCentralX: Y multiplied into the polynomial after a0.
BSMCentralMisplaced(y) ==
    LET rr == FSq(y)
    IN  FDiv(a0 + FMul(y, FMul(rr, a1 + FMul(rr, a2 + FMul(rr, a3)))),
             BSMDenominator(rr))

\* r = Y * Y; X = Y * (a0 + r * (a1 + r * (a2 + r * a3))) / (1 + r * (...))
BSMCentralX(y) ==
    LET rr == FSq(y)
    IN  FDiv(FMul(y, a0 + FMul(rr, a1 + FMul(rr, a2 + FMul(rr, a3)))),
             BSMDenominator(rr))

\* Mutant of BSMTailArg: the reflection of the upper tail forgotten.
BSMTailArgNoFlip(u, y) == u
\* r = U; if Y > 0: r = 1 - U
BSMTailArg(u, y) == IF y > 0 THEN Scale - u ELSE u

\* r = log(-log(r)), for 0 < r < 1
BSMLogLog(rr) == Ln(-Ln(rr))

\* X = c0 + r * (c1 + ... + r * (c7 + r * c8)); X = X * (np.sign(Y))
BSMTailX(rr, y) ==
    (c0 + FMul(rr, c1 + FMul(rr, c2 + FMul(rr, c3 + FMul(rr, c4
        + FMul(rr, c5 + FMul(rr, c6 + FMul(rr, c7 + FMul(rr, c8))))))))) * Sign(y)

\* One pass of the loop body on the draw u: Y, the last value of r, how it
\* ends ("fault": math.log(0) raises ValueError, r holding the argument) and X.
BSMBody(u) ==
    LET y == BSMOffset(u)
        arg == BSMTailArg(u, y)
    IN  IF BSMIsCentral(y)
        THEN [Y |-> y, r |-> FSq(y), end |-> "emit", X |-> BSMCentralX(y)]
        ELSE IF arg <= 0 \/ arg >= Scale
        THEN [Y |-> y, r |-> arg, end |-> "fault", X |-> 0]
        ELSE [Y |-> y, r |-> BSMLogLog(arg), end |-> "emit",
              X |-> BSMTailX(BSMLogLog(arg), y)]

BSMTable == [u \in UnitDraws |-> BSMBody(u)]

-----------------------------------------------------------------------------
(* The timer and the result mapping *)

\* Mutant of Elapsed: the operands exchanged.
ElapsedReversed(before, after) == before - after
\* t1 - t0
Elapsed(before, after) == after - before

\* comp_efficiency.update({k: v}) on a dict kept as its sequence of items in
\* insertion order: an existing key keeps its place.
DictUpdate(d, k, v) ==
    IF \E j \in 1..Len(d) : d[j].key = k
    THEN [j \in 1..Len(d) |-> IF d[j].key = k THEN [key |-> k, value |-> v] ELSE d[j]]
    ELSE Append(d, [key |-> k, value |-> v])

\* Stable insertion of item e into the sorted sequence s (key: the value).
RECURSIVE InsertByValue(_, _)
InsertByValue(s, e) ==
    IF s = <<>> THEN <<e>>
    ELSE IF e.value < s[Len(s)].value
         THEN Append(InsertByValue(SubSeq(s, 1, Len(s) - 1), e), s[Len(s)])
         ELSE Append(s, e)

\* Mutant of SortedByValue: the dict left in insertion order.
Unsorted(d) == d

\* dict(sorted(comp_efficiency.items(), key=lambda x: x[1]))
RECURSIVE SortedByValue(_)
SortedByValue(d) ==
    IF d = <<>> THEN <<>>
    ELSE InsertByValue(SortedByValue(SubSeq(d, 1, Len(d) - 1)), d[Len(d)])

-----------------------------------------------------------------------------
(* State *)

VARIABLES
    pc,                      \* position in the notebook
    seeds,                   \* how many times np.random.seed has run
    now,                     \* the wall clock: the last value time.time() gave
    N, comp_efficiency,      \* cell 1
    t0, t1,                  \* tick and tock of the running algorithm
    box_mueller, accept_reject, bray_marsaglia, beasley_springer_moro,
    i,                       \* the for loops' variable
    U1, U2, U3, U,           \* the draws of the last attempt
    c, Z1, Z2,               \* Box-Mueller
    X, Y, S, r,              \* the generators' results and intermediates
    comp_efficiency_sorted,  \* cell 7
    printed,                 \* the keys cell 7 printed, in order
    run,                     \* the algorithm timed last ("none" before the first)
    iters,                   \* of that run: outer iterations completed
    attempts,                \* of that run: loop bodies started
    draws,                   \* of that run: uniform draws taken
    variates,                \* of that run: variates produced
    outcome,                 \* how the last loop body ended
    fault                    \* the algorithm whose cell raised ValueError

timing == <<now, t0, t1, box_mueller, accept_reject, bray_marsaglia,
            beasley_springer_moro, comp_efficiency>>
scratch == <<U1, U2, U3, U, c, Z1, Z2, X, Y, S, r>>
counters == <<run, iters, attempts, draws, variates>>
report == <<comp_efficiency_sorted, printed>>
vars == <<pc, seeds, N, i, outcome, fault, timing, scratch, counters, report>>

\* Variables a cell has not assigned yet hold 0; the loops' scratch variables
\* are dead once their loop has ended and return to 0 at the tock.
ScratchCleared ==
    /\ U1' = 0 /\ U2' = 0 /\ U3' = 0 /\ U' = 0
    /\ c' = 0 /\ Z1' = 0 /\ Z2' = 0
    /\ X' = 0 /\ Y' = 0 /\ S' = 0 /\ r' = 0

Init ==
    /\ pc = "setup"
    /\ seeds = 0
    /\ now = 0
    /\ N = 0
    /\ comp_efficiency = <<>>
    /\ t0 = 0 /\ t1 = 0
    /\ box_mueller = 0 /\ accept_reject = 0
    /\ bray_marsaglia = 0 /\ beasley_springer_moro = 0
    /\ i = 0
    /\ U1 = 0 /\ U2 = 0 /\ U3 = 0 /\ U = 0
    /\ c = 0 /\ Z1 = 0 /\ Z2 = 0
    /\ X = 0 /\ Y = 0 /\ S = 0 /\ r = 0
    /\ comp_efficiency_sorted = <<>>
    /\ printed = <<>>
    /\ run = "none"
    /\ iters = 0 /\ attempts = 0 /\ draws = 0 /\ variates = 0
    /\ outcome = "none"
    /\ fault = "none"

-----------------------------------------------------------------------------
(* Cell 1: seed, sample count, empty dict *)

\* Mutant of Setup: np.random.seed left out of cell 1.
SetupUnseeded ==
    /\ pc = "setup"
    /\ seeds' = seeds
    /\ \E n \in 0..MaxN : N' = n
    /\ comp_efficiency' = <<>>
    /\ pc' = "bm_tick"
    /\ UNCHANGED <<now, t0, t1, box_mueller, accept_reject, bray_marsaglia,
                   beasley_springer_moro, i, outcome, fault, scratch, counters,
                   report>>

Setup ==
    /\ pc = "setup"
    /\ seeds' = seeds + 1
    /\ \E n \in 0..MaxN : N' = n
    /\ comp_efficiency' = <<>>
    /\ pc' = "bm_tick"
    /\ UNCHANGED <<now, t0, t1, box_mueller, accept_reject, bray_marsaglia,
                   beasley_springer_moro, i, outcome, fault, scratch, counters,
                   report>>

-----------------------------------------------------------------------------
(* The timer *)

\* time.time(): the clock has advanced by 0..MaxTick since the last read.
ClockReads == now..(now + MaxTick)

\* Mutant of Tick: the start timestamp of the run not read.
TickStale(here, alg, next) ==
    /\ pc = here
    /\ \E t \in ClockReads : now' = t /\ t0' = t0
    /\ pc' = next
    /\ run' = alg
    /\ iters' = 0 /\ attempts' = 0 /\ draws' = 0 /\ variates' = 0
    /\ outcome' = "none"
    /\ UNCHANGED <<seeds, N, i, t1, box_mueller, accept_reject, bray_marsaglia,
                   beasley_springer_moro, comp_efficiency, fault, scratch,
                   report>>

\* t0 = time.time(): the run of algorithm alg starts, with fresh counters.
Tick(here, alg, next) ==
    /\ pc = here
    /\ \E t \in ClockReads : now' = t /\ t0' = t
    /\ pc' = next
    /\ run' = alg
    /\ iters' = 0 /\ attempts' = 0 /\ draws' = 0 /\ variates' = 0
    /\ outcome' = "none"
    /\ UNCHANGED <<seeds, N, i, t1, box_mueller, accept_reject, bray_marsaglia,
                   beasley_springer_moro, comp_efficiency, fault, scratch,
                   report>>

-----------------------------------------------------------------------------
(* Cell 2: Box-Mueller *)

BM_Tick == Tick("bm_tick", BM, "bm_loop")

BM_Iter ==
    /\ pc = "bm_loop"
    /\ iters < BMCount(N)
    /\ \E u1, u2 \in CoarseDraws :
        /\ U1' = u1
        /\ U2' = u2
        /\ c' = BMTable[u1, u2].c
        /\ Z1' = BMTable[u1, u2].Z1
        /\ Z2' = BMTable[u1, u2].Z2
    /\ i' = iters
    /\ iters' = iters + 1
    /\ attempts' = attempts + 1
    /\ draws' = draws + 2
    /\ variates' = variates + 2
    /\ outcome' = "emit"
    /\ UNCHANGED <<pc, seeds, N, run, fault, timing, U3, U, X, Y, S, r, report>>

BM_Tock ==
    /\ pc = "bm_loop"
    /\ iters = BMCount(N)
    /\ \E t \in ClockReads :
        /\ now' = t
        /\ t1' = t
        /\ box_mueller' = Elapsed(t0, t)
        /\ comp_efficiency' = DictUpdate(comp_efficiency, BM, Elapsed(t0, t))
    /\ ScratchCleared
    /\ pc' = "ar_tick"
    /\ UNCHANGED <<seeds, N, i, t0, accept_reject, bray_marsaglia,
                   beasley_springer_moro, outcome, fault, counters, report>>

-----------------------------------------------------------------------------
(* Cell 3: Acceptance-Rejection *)

AR_Tick == Tick("ar_tick", AR, "ar_loop")

\* One pass of the body of "while True".  A pass that does not reach "break"
\* is explored while fewer than MaxRetries passes of this run have failed.
AR_Attempt ==
    /\ pc = "ar_loop"
    /\ iters < ARCount(N)
    /\ \E u1, u2, u3 \in CoarseDraws :
        LET b == ARTable[u1, u2, u3]
        IN  /\ U1' = u1
            /\ U2' = u2
            /\ U3' = u3
            /\ b.end = "redraw" => attempts - iters < MaxRetries
            /\ X' = IF b.end = "fault" THEN X ELSE b.X
            /\ outcome' = b.end
            /\ fault' = IF b.end = "fault" THEN AR ELSE fault
            /\ pc' = IF b.end = "fault" THEN "fault" ELSE pc
            /\ iters' = iters + (IF b.end = "emit" THEN 1 ELSE 0)
            /\ variates' = variates + (IF b.end = "emit" THEN 1 ELSE 0)
    /\ i' = iters
    /\ attempts' = attempts + 1
    /\ draws' = draws + ARDraws(outcome')
    /\ UNCHANGED <<seeds, N, run, timing, U, c, Z1, Z2, Y, S, r, report>>

\* Mutant of AR_Spin: a cap on the passes, after which the loop gives up and
\* hands out the candidate of a pass that did not reach "break".
AR_SpinCapped ==
    /\ pc = "ar_loop"
    /\ iters < ARCount(N)
    /\ attempts - iters >= MaxRetries
    /\ \E u1, u2, u3 \in CoarseDraws :
        LET b == ARTable[u1, u2, u3]
        IN  /\ b.end = "redraw"
            /\ U1' = u1
            /\ U2' = u2
            /\ U3' = u3
            /\ X' = b.X
    /\ i' = iters
    /\ outcome' = "emit"
    /\ iters' = iters + 1
    /\ variates' = variates + 1
    /\ UNCHANGED <<pc, seeds, N, fault, timing, U, c, Z1, Z2, Y, S, r, run,
                   attempts, draws, report>>

\* A further pass that does not reach "break", once MaxRetries passes of this
\* run have failed: "while True" has no cap, the counters stay at theirs.
AR_Spin ==
    /\ pc = "ar_loop"
    /\ iters < ARCount(N)
    /\ attempts - iters >= MaxRetries
    /\ \E u1, u2, u3 \in CoarseDraws :
        LET b == ARTable[u1, u2, u3]
        IN  /\ b.end = "redraw"
            /\ U1' = u1
            /\ U2' = u2
            /\ U3' = u3
            /\ X' = b.X
    /\ i' = iters
    /\ outcome' = "redraw"
    /\ UNCHANGED <<pc, seeds, N, fault, timing, U, c, Z1, Z2, Y, S, r, counters,
                   report>>

AR_Tock ==
    /\ pc = "ar_loop"
    /\ iters = ARCount(N)
    /\ \E t \in ClockReads :
        /\ now' = t
        /\ t1' = t
        /\ accept_reject' = Elapsed(t0, t)
        /\ comp_efficiency' = DictUpdate(comp_efficiency, AR, Elapsed(t0, t))
    /\ ScratchCleared
    /\ pc' = "pm_tick"
    /\ UNCHANGED <<seeds, N, i, t0, box_mueller, bray_marsaglia,
                   beasley_springer_moro, outcome, fault, counters, report>>

-----------------------------------------------------------------------------
(* Cell 4: Bray-Marsaglia *)

PM_Tick == Tick("pm_tick", PM, "pm_loop")

\* One pass of the body of "while True".  A rejected pass is explored while
\* fewer than MaxRetries passes of this run have been rejected.
PM_Attempt ==
    /\ pc = "pm_loop"
    /\ iters < PMCount(N)
    /\ \E u1, u2 \in SignedDraws :
        LET b == PMTable[u1, u2]
        IN  /\ U1' = u1
            /\ U2' = u2
            /\ S' = b.S
            /\ b.end = "redraw" => attempts - iters < MaxRetries
            /\ X' = IF b.end = "emit" THEN b.X ELSE X
            /\ Y' = IF b.end = "emit" THEN b.Y ELSE Y
            /\ outcome' = b.end
            /\ fault' = IF b.end = "fault" THEN PM ELSE fault
            /\ pc' = IF b.end = "fault" THEN "fault" ELSE pc
            /\ iters' = iters + (IF b.end = "emit" THEN 1 ELSE 0)
            /\ variates' = variates + (IF b.end = "emit" THEN 2 ELSE 0)
    /\ i' = iters
    /\ attempts' = attempts + 1
    /\ draws' = draws + PMDraws(outcome')
    /\ UNCHANGED <<seeds, N, run, timing, U3, U, c, Z1, Z2, r, report>>

\* A further rejected pass once MaxRetries passes of this run have been
\* rejected: "while True" has no cap, the counters stay at theirs.
PM_Spin ==
    /\ pc = "pm_loop"
    /\ iters < PMCount(N)
    /\ attempts - iters >= MaxRetries
    /\ \E u1, u2 \in SignedDraws :
        LET b == PMTable[u1, u2]
        IN  /\ b.end = "redraw"
            /\ U1' = u1
            /\ U2' = u2
            /\ S' = b.S
    /\ i' = iters
    /\ outcome' = "redraw"
    /\ UNCHANGED <<pc, seeds, N, fault, timing, U3, U, c, Z1, Z2, X, Y, r,
                   counters, report>>

PM_Tock ==
    /\ pc = "pm_loop"
    /\ iters = PMCount(N)
    /\ \E t \in ClockReads :
        /\ now' = t
        /\ t1' = t
        /\ bray_marsaglia' = Elapsed(t0, t)
        /\ comp_efficiency' = DictUpdate(comp_efficiency, PM, Elapsed(t0, t))
    /\ ScratchCleared
    /\ pc' = "bsm_tick"
    /\ UNCHANGED <<seeds, N, i, t0, box_mueller, accept_reject,
                   beasley_springer_moro, outcome, fault, counters, report>>

-----------------------------------------------------------------------------
(* Cell 6: Beasley-Springer-Moro *)

BSM_Tick == Tick("bsm_tick", BSM, "bsm_loop")

BSM_Iter ==
    /\ pc = "bsm_loop"
    /\ iters < BSMCount(N)
    /\ \E u \in UnitDraws :
        LET b == BSMTable[u]
        IN  /\ U' = u
            /\ Y' = b.Y
            /\ r' = b.r
            /\ X' = IF b.end = "emit" THEN b.X ELSE X
            /\ outcome' = b.end
            /\ fault' = IF b.end = "fault" THEN BSM ELSE fault
            /\ pc' = IF b.end = "fault" THEN "fault" ELSE pc
            /\ iters' = iters + (IF b.end = "emit" THEN 1 ELSE 0)
            /\ variates' = variates + (IF b.end = "emit" THEN 1 ELSE 0)
    /\ i' = iters
    /\ attempts' = attempts + 1
    /\ draws' = draws + 1
    /\ UNCHANGED <<seeds, N, run, timing, U1, U2, U3, c, Z1, Z2, S, report>>

BSM_Tock ==
    /\ pc = "bsm_loop"
    /\ iters = BSMCount(N)
    /\ \E t \in ClockReads :
        /\ now' = t
        /\ t1' = t
        /\ beasley_springer_moro' = Elapsed(t0, t)
        /\ comp_efficiency' = DictUpdate(comp_efficiency, BSM, Elapsed(t0, t))
    /\ ScratchCleared
    /\ pc' = "report"
    /\ UNCHANGED <<seeds, N, i, t0, box_mueller, accept_reject,
                   bray_marsaglia, outcome, fault, counters, report>>

-----------------------------------------------------------------------------
(* Cell 7: sort the dict by value and print it in order *)

Report ==
    /\ pc = "report"
    /\ comp_efficiency_sorted' = SortedByValue(comp_efficiency)
    /\ printed' = [j \in 1..Len(comp_efficiency) |->
                       SortedByValue(comp_efficiency)[j].key]
    /\ pc' = "done"
    /\ UNCHANGED <<seeds, N, i, outcome, fault, timing, scratch, counters>>

-----------------------------------------------------------------------------

Next ==
    \/ Setup
    \/ BM_Tick \/ BM_Iter \/ BM_Tock
    \/ AR_Tick \/ AR_Attempt \/ AR_Tock
    \/ PM_Tick \/ PM_Attempt \/ PM_Tock
    \/ BSM_Tick \/ BSM_Iter \/ BSM_Tock
    \/ Report

Spec == Init /\ [][Next]_vars

\* The notebook with its rejection loops running on past MaxRetries.
LiveNext == Next \/ AR_Spin \/ PM_Spin

\* if U2 <= exp(-0.5 * ((X - 1) ** 2)), on the draws of a pass.
ARAcceptTable ==
    [u1 \in CoarseDraws, u2 \in CoarseDraws |->
        u1 > 0 /\ ARAccepts(ARCandidate(u1), u2)]

\* An Acceptance-Rejection pass whose draws pass the acceptance test.
ARAcceptedPass == (AR_Attempt \/ AR_Spin) /\ ARAcceptTable[U1', U2']

\* A Bray-Marsaglia pass whose draws pass the acceptance test.
PMAcceptedPass == (PM_Attempt \/ PM_Spin) /\ PMAccepts(S')

\* The interpreter keeps executing the notebook, and a rejection loop that
\* keeps drawing is sooner or later handed draws passing its acceptance test.
FairSpec ==
    /\ Init
    /\ [][LiveNext]_vars
    /\ WF_vars(LiveNext)
    /\ SF_vars(ARAcceptedPass)
    /\ SF_vars(PMAcceptedPass)

-----------------------------------------------------------------------------
(* Properties *)

\* The elapsed-time variable of an algorithm.
TimeOf(alg) ==
    CASE alg = BM -> box_mueller
      [] alg = AR -> accept_reject
      [] alg = PM -> bray_marsaglia
      [] alg = BSM -> beasley_springer_moro

\* An Acceptance-Rejection pass has just run to its end without raising.
ARPassed == pc = "ar_loop" /\ outcome \in {"emit", "redraw"}

\* C1 (as claimed): every Acceptance-Rejection pass whose draws satisfy
\* U2 <= exp(-0.5*(X-1)^2), X = -ln(U1), leaves the rejection loop and emits
\* one variate: -X when U3 <= 0.5 and +X when U3 > 0.5; none is redrawn.
C1_AcceptedAttemptEmits ==
    (ARPassed /\ ARAccepts(ARCandidate(U1), U2)) =>
        /\ outcome = "emit"
        /\ X = (IF U3 <= Half THEN -ARCandidate(U1) ELSE ARCandidate(U1))

\* C2 (as claimed): a polar pass with S = 0 is rejected and redrawn like one
\* with S > 1, so the polar cell never raises on ln(0) or a division by zero.
C2_ZeroSumRejected ==
    /\ (run = PM /\ outcome # "none" /\ pc \in {"pm_loop", "fault"} /\ S = 0)
            => outcome = "redraw"
    /\ fault # PM

\* C3: every pair (X, Y) the polar loop emits is computed from the draws
\* (U1, U2) of the pass that left the loop, whose S = U1^2 + U2^2 is <= 1.
C3_EmittedPairFromAcceptedPass ==
    (pc = "pm_loop" /\ outcome = "emit") =>
        /\ S = FSq(U1) + FSq(U2)
        /\ S > 0 /\ S <= Scale
        /\ X = FMul(U1, Sqrt(FDiv(-2 * Ln(S), S)))
        /\ Y = FMul(U2, Sqrt(FDiv(-2 * Ln(S), S)))

\* C3 witness: a pair emitted on the pass after a rejected one.
C3_Witness ==
    /\ pc = "pm_loop" /\ outcome = "emit"
    /\ attempts = 2 /\ iters = 1
    /\ S < Scale /\ X > 0 /\ Y > 0 /\ X # Y

\* C4: for every variate X the Acceptance-Rejection loop emits, the U2 of the
\* same pass satisfies U2 <= exp(-0.5*(|X|-1)^2).
C4_EmittedPassedTest ==
    (pc = "ar_loop" /\ outcome = "emit") =>
        /\ Abs(X) = -Ln(U1)
        /\ U2 <= Exp(FMul(-Half, FSq(Abs(X) - Scale)))

\* C4 witness: a variate emitted on the pass after a failed one, with a U2
\* that some candidate would have failed on.
C4_Witness ==
    /\ pc = "ar_loop" /\ outcome = "emit"
    /\ attempts = 2 /\ iters = 1
    /\ U2 = Half /\ X < 0

\* C5: the inverse-CDF loop maps U = 0.5 to the output 0: Y is 0, the central
\* branch runs (r = Y * Y = 0), its denominator is 1 and X is 0.
C5_MedianMapsToZero ==
    (pc = "bsm_loop" /\ outcome # "none" /\ U = Half) =>
        /\ outcome = "emit"
        /\ Y = 0 /\ Abs(Y) < Central
        /\ r = 0
        /\ BSMDenominator(r) = Scale
        /\ X = 0

\* C5 witness: the loop has just processed the draw 0.5.
C5_Witness == pc = "bsm_loop" /\ outcome = "emit" /\ U = Half /\ iters >= 1

\* C6: for every draw 0 < U < 1 the inverse-CDF loop processes, its output X
\* and the output for 1 - U are exact negatives: both take the same branch,
\* the tail branch takes the logarithms of the same argument min(U, 1 - U).
C6_Symmetry ==
    (pc = "bsm_loop" /\ outcome = "emit") =>
        LET mirror == BSMBody(Scale - U)
            lower == IF U < Scale - U THEN U ELSE Scale - U
        IN  /\ U > 0 /\ U < Scale
            /\ mirror.end = "emit"
            /\ mirror.Y = -Y
            /\ BSMIsCentral(mirror.Y) <=> BSMIsCentral(Y)
            /\ ~BSMIsCentral(Y) =>
                   /\ BSMTailArg(U, Y) = lower
                   /\ BSMTailArg(Scale - U, mirror.Y) = lower
                   /\ r = Ln(-Ln(lower))
            /\ mirror.r = r
            /\ mirror.X = -X

\* C6 witness: the loop has just processed the upper-tail draw 0.96, whose
\* mirror 0.04 lies in the lower tail.
C6_Witness ==
    /\ pc = "bsm_loop" /\ outcome = "emit"
    /\ U = (96 * Scale) \div 100 /\ X > Scale

\* C7: the inverse-CDF run has no rejection loop and takes one draw per
\* variate: every pass that does not raise emits one variate from one draw,
\* and once the run has ended N draws were taken and N variates computed.
C7_OneDrawPerVariate ==
    (run = BSM) =>
        /\ outcome # "redraw"
        /\ draws = attempts
        /\ variates = iters
        /\ draws = variates + (IF pc = "fault" THEN 1 ELSE 0)
        /\ pc \in {"report", "done"} => (draws = N /\ variates = N)

\* C7 witness: a run of three iterations has ended.
C7_Witness == pc = "report" /\ run = BSM /\ N = 3 /\ draws = 3 /\ variates = 3

\* C8: once all four runs have ended and the mapping is sorted, it has
\* exactly four entries, one per algorithm, each holding that algorithm's own
\* elapsed time; iterating it yields them in ascending order of elapsed time,
\* ties included, and the report prints the keys in that order.
C8_SortedReport ==
    (pc = "done") =>
        /\ Len(comp_efficiency_sorted) = 4
        /\ {comp_efficiency_sorted[j].key : j \in 1..4} = Algorithms
        /\ \A j \in 1..4 :
               comp_efficiency_sorted[j].value = TimeOf(comp_efficiency_sorted[j].key)
        /\ \A j \in 1..3 :
               comp_efficiency_sorted[j].value <= comp_efficiency_sorted[j + 1].value
        /\ printed = [j \in 1..4 |-> comp_efficiency_sorted[j].key]

\* C8 witness: measured times out of order in the dict, with ties.
C8_Witness ==
    /\ pc = "done"
    /\ box_mueller = 1 /\ accept_reject = 0
    /\ bray_marsaglia = 1 /\ beasley_springer_moro = 0
    /\ printed = <<AR, BSM, BM, PM>>

\* C9 (as claimed): every elapsed time the harness records is strictly
\* greater than 0.
C9_ElapsedPositive ==
    \A j \in 1..Len(comp_efficiency) : comp_efficiency[j].value > 0

\* C9 (amended): every elapsed time the harness records is t1 - t0 of its own
\* run and is greater than or equal to 0, the timer never stepping back.
C9_ElapsedNonNegative ==
    /\ \A j \in 1..Len(comp_efficiency) : comp_efficiency[j].value >= 0
    /\ (run # "none" /\ pc \in {"ar_tick", "pm_tick", "bsm_tick", "report"}) =>
           /\ t1 >= t0
           /\ comp_efficiency[Len(comp_efficiency)].key = run
           /\ comp_efficiency[Len(comp_efficiency)].value = t1 - t0
           /\ TimeOf(run) = t1 - t0

\* C9 witness: a finished harness run that recorded an elapsed time of 0 and
\* an elapsed time above 0.
C9_Witness ==
    /\ pc = "done"
    /\ \E j \in 1..4 : comp_efficiency[j].value = 0
    /\ \E j \in 1..4 : comp_efficiency[j].value > 0

\* The Box-Mueller run has ended.
BMEnded == run = BM /\ pc = "ar_tick"

\* C10 (as claimed): the Box-Mueller loop runs ceil(N/2) times, each pass
\* taking 2 draws and producing 2 variates, so that at least N variates are
\* produced for every N >= 1.
C10_CeilPairs ==
    BMEnded =>
        /\ attempts = (N + 1) \div 2
        /\ draws = 2 * attempts /\ variates = 2 * attempts
        /\ N >= 1 => variates >= N

\* C10 (amended): the Box-Mueller loop runs floor(N/2) times, each pass
\* taking 2 draws and producing 2 variates, so that N variates are produced
\* for an even N and N - 1 for an odd N.
C10_FloorPairs ==
    (run = BM) =>
        /\ draws = 2 * attempts /\ variates = 2 * attempts
        /\ attempts = iters
        /\ BMEnded =>
               /\ attempts = N \div 2
               /\ variates = (IF N % 2 = 0 THEN N ELSE N - 1)

\* C10 witness: the run for N = 3 has ended after one pass.
C10_Witness == BMEnded /\ N = 3 /\ attempts = 1 /\ variates = 2


\* The run of the algorithm named by run has ended and recorded its time.
RunEnded == pc \in {"ar_tick", "pm_tick", "bsm_tick", "report", "done"}

\* C11: the two pair generators run floor(N/2) outer iterations, each
\* emitting one pair (2 * floor(N/2) variates, an odd remainder dropped); the
\* two single-output generators run N outer iterations of one variate each.
C11_OuterIterations ==
    /\ run \in {BM, PM} =>
           /\ variates = 2 * iters
           /\ RunEnded => (iters = N \div 2 /\ variates = 2 * (N \div 2))
    /\ run \in {AR, BSM} =>
           /\ variates = iters
           /\ RunEnded => (iters = N /\ variates = N)
    /\ iters <= attempts

\* C11 witness: the polar run for N = 3 has ended after one pair, which took
\* two passes.
C11_Witness ==
    /\ run = PM /\ pc = "bsm_tick" /\ N = 3
    /\ iters = 1 /\ variates = 2 /\ attempts = 2


\* C13 (as claimed): a sample count N <= 0 ends the harness in a fatal
\* configuration error: no elapsed time is recorded for it, nothing is sorted
\* or printed, and the notebook never reaches its end.
C13_NonPositiveNRejected ==
    (pc # "setup" /\ N <= 0) =>
        /\ comp_efficiency = <<>>
        /\ comp_efficiency_sorted = <<>>
        /\ printed = <<>>
        /\ pc # "done"


\* The cells' algorithms in the order the notebook runs them.
RunOrder == <<BM, AR, PM, BSM>>

\* The place of a run in that order, 0 before the first tick.
RunIndex(alg) == IF alg = "none" THEN 0 ELSE CHOOSE j \in 1..4 : RunOrder[j] = alg

\* The keys of the result mapping, in insertion order.
RecordedKeys == [j \in 1..Len(comp_efficiency) |-> comp_efficiency[j].key]

\* The place in the notebook of the loop of an algorithm.
LoopOf(alg) ==
    CASE alg = BM -> "bm_loop"
      [] alg = AR -> "ar_loop"
      [] alg = PM -> "pm_loop"
      [] alg = BSM -> "bsm_loop"
      [] OTHER -> "setup"

\* C14 (states): the source has been seeded once by the time any draw is
\* taken; the recorded keys are the runs that have ended, in notebook order,
\* the current run's key being absent while it still draws; the sorted mapping
\* exists only when all four have recorded their time.
C14_OrderedStates ==
    /\ seeds <= 1
    /\ (pc # "setup" \/ draws > 0) => seeds = 1
    /\ RecordedKeys = SubSeq(RunOrder, 1, Len(comp_efficiency))
    /\ Len(comp_efficiency) \in {RunIndex(run) - 1, RunIndex(run)}
    /\ (run # "none" /\ pc \in {LoopOf(run), "fault"})
           => Len(comp_efficiency) = RunIndex(run) - 1
    /\ (comp_efficiency_sorted # <<>> \/ printed # <<>> \/ pc = "done")
           => RecordedKeys = RunOrder

\* C14 (steps): seeding happens in cell 1 only, before any draw; the runs
\* follow one another in notebook order; a draw is taken only inside the loop
\* of the current run, before that run has recorded its time; and the sort
\* happens only once all four times are recorded.
C14_OrderedSteps ==
    /\ seeds' # seeds => (pc = "setup" /\ seeds = 0 /\ draws = 0 /\ run = "none")
    /\ run' # run => RunIndex(run') = RunIndex(run) + 1
    /\ draws' > draws =>
           /\ run' = run
           /\ pc = LoopOf(run)
           /\ Len(comp_efficiency) = RunIndex(run) - 1
           /\ comp_efficiency' = comp_efficiency
    /\ draws' < draws => (run' # run /\ draws' = 0)
    /\ comp_efficiency_sorted' # comp_efficiency_sorted =>
           (RecordedKeys = RunOrder /\ pc = "report" /\ run = BSM)

\* C14: the harness events are totally ordered: one seeding before the first
\* draw, then the four runs one after another (Box-Mueller,
\* Acceptance-Rejection, Bray-Marsaglia, Beasley-Springer-Moro) with no draw of
\* one between the draws of another, then the sort, after all four runs have
\* recorded their elapsed time.
C14_TotalOrder == []C14_OrderedStates /\ [][C14_OrderedSteps]_vars

\* C14 witness: the notebook has ended after runs in which every algorithm
\* drew (N = 2), the last one having recorded its time fourth.
C14_Witness ==
    /\ pc = "done" /\ N = 2 /\ seeds = 1
    /\ run = BSM /\ draws = 2
    /\ Len(comp_efficiency_sorted) = 4
    /\ comp_efficiency[4].key = BSM


\* C15 (as claimed): when passes whose draws pass the acceptance test keep
\* coming, every rejection loop is left, every run completes and the notebook
\* reaches the end of its reporting cell (a run cut short by a raised
\* ValueError set aside).
C15_Termination == <>(pc \in {"done", "fault"})


\* A Beasley-Springer-Moro pass has just run, to its end or to a ValueError.
BSMRan == run = BSM /\ outcome # "none" /\ pc \in {"bsm_loop", "fault"}

\* C16: the inverse-CDF pass chooses its branch by Y = U - 0.5 alone: the
\* central rational formula exactly when |Y| < 0.42, the tail polynomial
\* exactly when |Y| >= 0.42 (U = 0.08 and U = 0.92 included); in the tail
\* ln(-ln(.)) is applied to U when Y <= 0 and to 1 - U when Y > 0, and the
\* polynomial value is negated exactly when Y < 0.
C16_BranchSelection ==
    BSMRan =>
        /\ Y = U - Half
        /\ (Abs(Y) < Central) =>
               /\ outcome = "emit"
               /\ r = FSq(Y)
               /\ X = BSMCentralX(Y)
        /\ (Abs(Y) >= Central) =>
               LET arg == IF Y <= 0 THEN U ELSE Scale - U
               IN  IF arg <= 0 \/ arg >= Scale
                   THEN outcome = "fault" /\ r = arg
                   ELSE /\ outcome = "emit"
                        /\ r = Ln(-Ln(arg))
                        /\ BSMTailX(r, 1) > 0
                        /\ X = (IF Y < 0 THEN -BSMTailX(r, 1) ELSE BSMTailX(r, 1))
                        /\ (X < 0) <=> (Y < 0)

\* C16 witness: the boundary draw U = 0.08 went through the tail branch and
\* gave a negative variate.
C16_Witness ==
    /\ pc = "bsm_loop" /\ outcome = "emit"
    /\ U = (8 * Scale) \div 100
    /\ Abs(Y) = Central
    /\ r = Ln(-Ln(U))
    /\ X < 0


\* A rejection loop is inside an outer iteration: "while True" is running.
InRejectionLoop ==
    \/ pc = "ar_loop" /\ iters < ARCount(N)
    \/ pc = "pm_loop" /\ iters < PMCount(N)

\* A pass of either rejection loop that does not reach "break".
RejectedPass ==
    (AR_Spin \/ PM_Spin \/ AR_Attempt \/ PM_Attempt) /\ outcome' = "redraw"

\* C17 (steps): inside "while True" every step is a pass; one that fails
\* leaves the loop running with nothing emitted; a variate is emitted only by
\* a pass whose draws reach "break"; and the loop is left only by such a pass
\* or by a raised ValueError.
C17_FailedPassKeepsLooping ==
    InRejectionLoop =>
        /\ outcome' \in {"emit", "redraw", "fault"}
        /\ outcome' = "redraw" =>
               /\ pc' = pc /\ fault' = fault
               /\ iters' = iters /\ variates' = variates
        /\ outcome' = "fault" => (pc' = "fault" /\ variates' = variates)
        /\ outcome' = "emit" => (pc' = pc /\ iters' = iters + 1)
        /\ variates' # variates =>
               /\ outcome' = "emit"
               /\ pc = "ar_loop" => (ARAcceptTable[U1', U2'] /\ U3' <= Half)
               /\ pc = "pm_loop" => (S' = FSq(U1') + FSq(U2') /\ S' <= Scale)

\* C17: neither rejection loop has an iteration cap: however many passes of
\* the invocation have failed (MaxRetries and beyond), one more failing pass
\* is possible, and a failing pass never ends the loop, truncates it or emits
\* a variate.
C17_NoIterationCap ==
    /\ [](InRejectionLoop => ENABLED RejectedPass)
    /\ [][C17_FailedPassKeepsLooping]_vars

\* C17 witness: in each loop an invocation has failed MaxRetries times and is
\* still inside "while True", where a further failing pass is possible.
C17_Witness ==
    /\ pc = "pm_loop" /\ outcome = "redraw" /\ S > Scale
    /\ attempts - iters = MaxRetries /\ variates = 2 * iters
    /\ ENABLED PM_Spin


\* C18: every rejection pass takes a fixed number of draws before its test:
\* three per Acceptance-Rejection pass (U3 too when the pass is rejected), two
\* per Bray-Marsaglia pass; so the draws of the Acceptance-Rejection run are 3
\* times its passes and those of the Bray-Marsaglia run 2 times its passes.
C18_FixedDrawsPerAttempt ==
    /\ run = AR => draws = 3 * attempts
    /\ run = PM => draws = 2 * attempts
    /\ (run \in {AR, PM} /\ outcome # "none") => attempts >= 1
    /\ (run = AR /\ outcome # "none" /\ pc \in {"ar_loop", "fault"}) =>
           (U1 \in CoarseDraws /\ U2 \in CoarseDraws /\ U3 \in CoarseDraws)
    /\ (run = PM /\ outcome # "none" /\ pc \in {"pm_loop", "fault"}) =>
           (U1 \in SignedDraws /\ U2 \in SignedDraws)

\* C18 witness: an Acceptance-Rejection run whose first pass failed the
\* acceptance test and whose second was emitted has taken six draws.
C18_Witness ==
    /\ pc = "ar_loop" /\ outcome = "emit"
    /\ attempts = 2 /\ iters = 1 /\ draws = 6


\* The number of outer iterations of the loop of an algorithm.
CountOf(alg) ==
    CASE alg = BM -> BMCount(N)
      [] alg = AR -> ARCount(N)
      [] alg = PM -> PMCount(N)
      [] alg = BSM -> BSMCount(N)
      [] OTHER -> 0

\* C19 (states): every algorithm has at most one entry, equal to its elapsed
\* variable; while a run is in its loop its own entry is not written yet.
C19_EntriesWrittenOnce ==
    /\ \A j, k \in 1..Len(comp_efficiency) :
           comp_efficiency[j].key = comp_efficiency[k].key => j = k
    /\ \A j \in 1..Len(comp_efficiency) :
           /\ comp_efficiency[j].key \in Algorithms
           /\ comp_efficiency[j].value = TimeOf(comp_efficiency[j].key)
    /\ (run # "none" /\ pc \in {LoopOf(run), "fault"}) =>
           \A j \in 1..Len(comp_efficiency) : comp_efficiency[j].key # run
    /\ now >= t0 /\ now >= t1

\* C19 (steps): the start timestamp is read when the run begins, before any of
\* its draws, and stays; draws happen only between it and the end timestamp;
\* the entry is written in the step that reads the end timestamp, after the
\* last outer iteration, as t1 - t0 under the run's own name; written entries
\* never change.
C19_BracketedSteps ==
    /\ run' # run =>
           /\ t0' = now' /\ now' >= now
           /\ draws' = 0 /\ attempts' = 0
           /\ comp_efficiency' = comp_efficiency
    /\ run' = run => t0' = t0
    /\ draws' > draws =>
           /\ pc = LoopOf(run) /\ pc' \in {LoopOf(run), "fault"}
           /\ iters < CountOf(run)
           /\ now' = now /\ t1' = t1
           /\ comp_efficiency' = comp_efficiency
    /\ comp_efficiency' # comp_efficiency =>
           /\ pc = LoopOf(run) /\ pc' # pc
           /\ iters = CountOf(run)
           /\ draws' = draws
           /\ t1' = now' /\ now' >= now
           /\ comp_efficiency' =
                  Append(comp_efficiency, [key |-> run, value |-> t1' - t0])
    /\ \A j \in 1..Len(comp_efficiency) :
           /\ Len(comp_efficiency') >= j
           /\ comp_efficiency'[j] = comp_efficiency[j]
    /\ \A alg \in Algorithms :
           TimeOf(alg)' # TimeOf(alg) => (alg = run /\ comp_efficiency' # comp_efficiency)

\* C19: the elapsed time recorded for an algorithm brackets exactly its own
\* run: t0 is read before its first draw, t1 after its last outer iteration,
\* no other algorithm draws in between, and its entry of the mapping is
\* written once, with t1, and never changed afterwards.
C19_ElapsedBracketsRun == []C19_EntriesWrittenOnce /\ [][C19_BracketedSteps]_vars

\* C19 witness: the notebook has ended with the Acceptance-Rejection entry
\* written second, holding a clock advance of its own run, and a later entry
\* written with a different value.
C19_Witness ==
    /\ pc = "done" /\ N = 2
    /\ comp_efficiency[2] = [key |-> AR, value |-> 1]
    /\ accept_reject = 1
    /\ comp_efficiency[3] = [key |-> PM, value |-> 0]


\* A draw from the (0, 1) source that is strictly inside the interval.
StrictUnit(u) == 0 < u /\ u < Scale

\* min(U, 1 - U)
TailMin(u) == IF u <= Scale - u THEN u ELSE Scale - u

\* C20: when every draw from the (0, 1) source is strictly between 0 and 1,
\* Box-Mueller, Acceptance-Rejection and the inverse-CDF cell take logarithms
\* of positive arguments and square roots of non-negative ones only, so none
\* raises or yields an infinity; in the inverse-CDF tail the inner argument is
\* min(U, 1 - U), within (0, 0.08], so -ln of it is positive.
C20_NoDomainError ==
    /\ (pc = "bm_loop" /\ outcome = "emit" /\ StrictUnit(U1)) =>
           /\ Ln(U1) < 0
           /\ -2 * Ln(U1) >= 0
           /\ c = Sqrt(-2 * Ln(U1))
           /\ c > 0 /\ c < Inf
           /\ Abs(Z1) < Inf /\ Abs(Z2) < Inf
    /\ (run = AR /\ outcome # "none" /\ pc \in {"ar_loop", "fault"}
            /\ StrictUnit(U1)) =>
           /\ outcome # "fault"
           /\ Abs(X) = -Ln(U1)
    /\ (BSMRan /\ StrictUnit(U)) =>
           /\ outcome = "emit"
           /\ (Abs(Y) >= Central) =>
                  /\ BSMTailArg(U, Y) = TailMin(U)
                  /\ 0 < TailMin(U) /\ TailMin(U) <= (8 * Scale) \div 100
                  /\ -Ln(TailMin(U)) > 0
                  /\ r = Ln(-Ln(TailMin(U)))
    /\ fault # BM
    /\ fault = AR => ~StrictUnit(U1)
    /\ fault = BSM => ~StrictUnit(U)

\* C20 witness: a lower-tail draw U = 0.04 went through both logarithms of
\* the inverse-CDF tail branch and was emitted.
C20_Witness ==
    /\ pc = "bsm_loop" /\ outcome = "emit"
    /\ U = (4 * Scale) \div 100
    /\ -Ln(U) > Scale
    /\ r = Ln(-Ln(U)) /\ r > Scale
    /\ X < -Scale

=============================================================================
